---- MODULE Spec2Model ----
(***************************************************************************)
(* GeoJSON Comparison Tool (streamlit_app.py): the three functions of the  *)
(* analysis pipeline, validate_geojson, analyze_geojson and                *)
(* compare_geojson, over parsed JSON values.                               *)
(*                                                                         *)
(* A parsed JSON value (what json.loads returns) is a tagged record:       *)
(*   None  -> [k |-> "null"]          bool -> [k |-> "bool", b |-> ...]    *)
(*   int   -> [k |-> "num", n |-> .]  str  -> [k |-> "str", s |-> ...]     *)
(*   list  -> [k |-> "arr", a |-> <<...>>]                                 *)
(*   dict  -> [k |-> "obj", o |-> [key |-> value, ...]]                    *)
(* A call either returns a value or raises a Python exception; both        *)
(* outcomes are values of the model, so that "never raises" is a property  *)
(* of a function and not an assumption about it.                           *)
(***************************************************************************)
EXTENDS Integers, Sequences, FiniteSets, TLC

VARIABLES doc1, doc2, pc, validation1, validation2, analysis1, analysis2, comparison

vars == <<doc1, doc2, pc, validation1, validation2, analysis1, analysis2, comparison>>

(***************************************************************************)
(* JSON values                                                             *)
(***************************************************************************)
JNull == [k |-> "null"]
JBool(b) == [k |-> "bool", b |-> b]
JNum(n) == [k |-> "num", n |-> n]
JStr(s) == [k |-> "str", s |-> s]
JArr(a) == [k |-> "arr", a |-> a]
JObj(o) == [k |-> "obj", o |-> o]

EmptyDict == JObj(<<>>)
EmptyList == JArr(<<>>)

IsDict(v) == v.k = "obj"
IsList(v) == v.k = "arr"
IsStr(v) == v.k = "str"

\* The outcome of a call: a returned value, or a raised exception.
Return(v) == [out |-> "return", value |-> v]
Raise(e) == [out |-> "raise", exc |-> e]
NotCalled == [out |-> "none"]

\* key in d, for a dict d.
HasKey(d, key) == key \in DOMAIN d.o

\* d.get(key, default), for a dict d.
Get(d, key, default) == IF key \in DOMAIN d.o THEN d.o[key] ELSE default

\* bool(v): None, False, 0, "", [] and {} are falsy.
Truthy(v) ==
    CASE v.k = "null" -> FALSE
      [] v.k = "bool" -> v.b
      [] v.k = "num" -> v.n # 0
      [] v.k = "str" -> v.s # ""
      [] v.k = "arr" -> v.a # <<>>
      [] v.k = "obj" -> DOMAIN v.o # {}

\* hash(v) raises TypeError for a list or a dict (a dict key must be hashable).
Hashable(v) == v.k \notin {"arr", "obj"}

(***************************************************************************)
(* validate_geojson                                                        *)
(***************************************************************************)
GeoJSONTypes ==
    {"FeatureCollection", "Feature", "Point", "LineString", "Polygon",
     "MultiPoint", "MultiLineString", "MultiPolygon", "GeometryCollection"}

geojson_schema ==
    [type |-> "object",
     required |-> {"type"},
     properties |->
        [type |-> [type |-> "string", enum |-> GeoJSONTypes],
         features |-> [type |-> "array"],
         geometry |-> [type |-> "object"],
         properties |-> [type |-> "object"],
         coordinates |-> [type |-> "array"]]]

\* jsonschema's "type" keyword: the JSON kind of an instance.
JsonType(v) ==
    CASE v.k = "obj" -> "object"
      [] v.k = "arr" -> "array"
      [] v.k = "str" -> "string"
      [] v.k = "num" -> "number"
      [] v.k = "bool" -> "boolean"
      [] v.k = "null" -> "null"

\* Mutant of SubschemaErrors: the "type" keyword of a member's subschema is
\* not enforced, so that a member is checked for presence only.
SubschemaErrorsLoose(v, s) ==
    IF "enum" \in DOMAIN s /\ ~(IsStr(v) /\ v.s \in s.enum) THEN {"enum"} ELSE {}

\* The keywords of a property's subschema that the instance violates.
SubschemaErrors(v, s) ==
    (IF "type" \in DOMAIN s /\ JsonType(v) # s.type THEN {"type"} ELSE {})
    \cup (IF "enum" \in DOMAIN s /\ ~(IsStr(v) /\ v.s \in s.enum) THEN {"enum"} ELSE {})

\* jsonschema's iter_errors: every violation of the schema, as <<path, keyword>>.
\* "required" and "properties" apply to objects only.
SchemaErrors(data, schema) ==
    (IF JsonType(data) # schema.type THEN {<<"", "type">>} ELSE {})
    \cup (IF IsDict(data)
          THEN {<<r, "required">> : r \in {q \in schema.required : ~HasKey(data, q)}}
          ELSE {})
    \cup (IF IsDict(data)
          THEN UNION {{<<p, kw>> : kw \in SubschemaErrors(data.o[p], schema.properties[p])} :
                      p \in DOMAIN schema.properties \cap DOMAIN data.o}
          ELSE {})

\* validate(instance=data, schema=geojson_schema): raises ValidationError on
\* any violation, returns None otherwise.
validate(data, schema) ==
    IF SchemaErrors(data, schema) # {}
    THEN Raise("ValidationError")
    ELSE Return(JNull)

\* Mutant of validate_body: the check of lines 38-39 (a Feature must have a
\* geometry member) is left out.
validate_body_nogeometry(data) ==
    IF validate(data, geojson_schema).out = "raise"
    THEN validate(data, geojson_schema)
    ELSE IF ~IsDict(data)
    THEN Raise("AttributeError")
    ELSE IF Get(data, "type", JNull) = JStr("FeatureCollection") /\ ~HasKey(data, "features")
    THEN Return(<<FALSE, "FeatureCollection must have 'features' array">>)
    ELSE Return(<<TRUE, "Valid GeoJSON">>)

\* The body of the try block (lines 19-41). After validate() has passed, data
\* is a dict and data.get cannot fail.
validate_body(data) ==
    IF validate(data, geojson_schema).out = "raise"
    THEN validate(data, geojson_schema)
    ELSE IF ~IsDict(data)
    THEN Raise("AttributeError")
    ELSE IF Get(data, "type", JNull) = JStr("FeatureCollection") /\ ~HasKey(data, "features")
    THEN Return(<<FALSE, "FeatureCollection must have 'features' array">>)
    ELSE IF Get(data, "type", JNull) = JStr("Feature") /\ ~HasKey(data, "geometry")
    THEN Return(<<FALSE, "Feature must have 'geometry' property">>)
    ELSE Return(<<TRUE, "Valid GeoJSON">>)

\* Mutant of validate_geojson: the handler of lines 42-43 is missing, and a
\* ValidationError reaches the caller.
validate_geojson_reraise(data) ==
    IF validate_body(data).out = "raise" /\ validate_body(data).exc # "ValidationError"
    THEN Return(<<FALSE, "Error during validation: <str(e)>">>)
    ELSE validate_body(data)

\* validate_geojson(data), lines 15-45: the try block and its two except
\* clauses. e.message and str(e) are the library's texts, kept abstract.
validate_geojson(data) ==
    IF validate_body(data).out = "raise"
    THEN IF validate_body(data).exc = "ValidationError"
         THEN Return(<<FALSE, "Invalid GeoJSON: <e.message>">>)
         ELSE Return(<<FALSE, "Error during validation: <str(e)>">>)
    ELSE validate_body(data)

(***************************************************************************)
(* Python's len(), iteration and "in" on the kinds of value a member may   *)
(* hold                                                                    *)
(***************************************************************************)
\* The characters of a string, for the strings the inputs hold as a
\* `features` member.
Chars(s) ==
    CASE s = "" -> <<>>
      [] s = "ab" -> <<"a", "b">>

\* The keys of a dict as a sequence (a dict iterates over its keys; the order
\* is the insertion order, which no outcome below depends on).
KeysSeq(d) ==
    CHOOSE q \in [1..Cardinality(DOMAIN d.o) -> DOMAIN d.o] :
        \A i, j \in DOMAIN q : i # j => q[i] # q[j]

\* len(v) is defined for list, str and dict; TypeError for None, bool, int.
HasLen(v) == v.k \in {"arr", "str", "obj"}

PyLen(v) ==
    CASE v.k = "arr" -> Len(v.a)
      [] v.k = "str" -> Len(Chars(v.s))
      [] v.k = "obj" -> Cardinality(DOMAIN v.o)

\* The elements `for x in v` yields: a list's items, a str's characters, a
\* dict's keys.
Iter(v) ==
    CASE v.k = "arr" -> v.a
      [] v.k = "str" -> [i \in 1..Len(Chars(v.s)) |-> JStr(Chars(v.s)[i])]
      [] v.k = "obj" -> [i \in 1..Cardinality(DOMAIN v.o) |-> JStr(KeysSeq(v)[i])]

\* sub in s, for strings: substring containment. Among the strings of the
\* inputs only "properties" itself contains "properties".
InStr(sub, s) == s = sub

\* `key in v` is defined for dict (a key), list (an item equal to key) and str
\* (a substring); TypeError for None, bool, int.
HasIn(v) == v.k \in {"arr", "str", "obj"}

PyIn(key, v) ==
    CASE v.k = "obj" -> key \in DOMAIN v.o
      [] v.k = "arr" -> \E i \in DOMAIN v.a : v.a[i] = JStr(key)
      [] v.k = "str" -> InStr(key, v.s)

(***************************************************************************)
(* analyze_geojson                                                         *)
(***************************************************************************)
\* feature_types[geo_type] = feature_types.get(geo_type, 0) + 1
Tally(feature_types, geo_type) ==
    IF geo_type \in DOMAIN feature_types
    THEN [feature_types EXCEPT ![geo_type] = @ + 1]
    ELSE feature_types @@ (geo_type :> 1)

\* Lines 69-70 (and 80-81, 112-113): the property keys one feature adds.
\* `feature` is a dict here. A truthy `properties` that is no dict has no
\* .keys(): AttributeError.
FeatureKeys(feature) ==
    IF ~(HasKey(feature, "properties") /\ Truthy(feature.o["properties"]))
    THEN Return({})
    ELSE IF ~IsDict(feature.o["properties"])
    THEN Raise("AttributeError")
    ELSE Return(DOMAIN feature.o["properties"].o)

\* One pass of the loop body, lines 65-70, on `feature`.
AnalyzeFeature(feature, acc) ==
    IF ~IsDict(feature)
    THEN Raise("AttributeError")
    ELSE IF ~IsDict(Get(feature, "geometry", EmptyDict))
    THEN Raise("AttributeError")
    ELSE IF ~Hashable(Get(Get(feature, "geometry", EmptyDict), "type", JStr("Unknown")))
    THEN Raise("TypeError")
    ELSE IF FeatureKeys(feature).out = "raise"
    THEN FeatureKeys(feature)
    ELSE Return([feature_types |->
                    Tally(acc.feature_types,
                          Get(Get(feature, "geometry", EmptyDict), "type", JStr("Unknown"))),
                 property_keys |-> acc.property_keys \cup FeatureKeys(feature).value])

\* The loop of lines 64-70 from item i on; the first exception ends it.
RECURSIVE AnalyzeLoop(_, _, _)
AnalyzeLoop(items, i, acc) ==
    IF i > Len(items)
    THEN Return(acc)
    ELSE IF AnalyzeFeature(items[i], acc).out = "raise"
    THEN AnalyzeFeature(items[i], acc)
    ELSE AnalyzeLoop(items, i + 1, AnalyzeFeature(items[i], acc).value)

BareGeometryTypes ==
    {"Point", "LineString", "Polygon", "MultiPoint",
     "MultiLineString", "MultiPolygon", "GeometryCollection"}

\* The FeatureCollection branch, lines 56-73. property_keys is list(set(...)):
\* a list without duplicates in an unspecified order, represented by its set.
AnalyzeCollection(data, type) ==
    LET features == Get(data, "features", EmptyList) IN
    IF ~HasLen(features)
    THEN Raise("TypeError")
    ELSE LET loop == AnalyzeLoop(Iter(features), 1,
                                 [feature_types |-> <<>>, property_keys |-> {}]) IN
         IF loop.out = "raise"
         THEN loop
         ELSE Return(("type" :> type)
                     @@ ("feature_count" :> PyLen(features))
                     @@ ("geometry_types" :> loop.value.feature_types)
                     @@ ("property_keys" :> loop.value.property_keys))

\* The Feature branch, lines 76-81.
AnalyzeSingle(data, type) ==
    IF ~IsDict(Get(data, "geometry", EmptyDict))
    THEN Raise("AttributeError")
    ELSE IF FeatureKeys(data).out = "raise"
    THEN FeatureKeys(data)
    ELSE Return(("type" :> type)
                @@ ("geometry_type" :>
                        Get(Get(data, "geometry", EmptyDict), "type", JStr("Unknown")))
                @@ (IF HasKey(data, "properties") /\ Truthy(data.o["properties"])
                    THEN "property_keys" :> FeatureKeys(data).value
                    ELSE <<>>))

\* analyze_geojson(data), lines 48-88. data.get on a value that is no dict
\* raises AttributeError.
analyze_geojson(data) ==
    IF ~IsDict(data)
    THEN Raise("AttributeError")
    ELSE LET type == Get(data, "type", JStr("Unknown")) IN
         IF type = JStr("FeatureCollection")
         THEN AnalyzeCollection(data, type)
         ELSE IF type = JStr("Feature")
         THEN AnalyzeSingle(data, type)
         ELSE IF IsStr(type) /\ type.s \in BareGeometryTypes
         THEN Return(("type" :> type) @@ ("geometry_type" :> type))
         ELSE Return("type" :> type)

(***************************************************************************)
(* compare_geojson                                                         *)
(***************************************************************************)
\* Lines 112-113 (and 116-117) on one item of `features`: "properties" in
\* feature raises TypeError for None, bool and int; feature["properties"]
\* raises TypeError for a list or str that contains "properties".
CompareFeatureKeys(feature) ==
    IF ~HasIn(feature)
    THEN Raise("TypeError")
    ELSE IF ~PyIn("properties", feature)
    THEN Return({})
    ELSE IF ~IsDict(feature)
    THEN Raise("TypeError")
    ELSE FeatureKeys(feature)

\* The loops of lines 111-113 and 115-117 from item i on.
RECURSIVE CompareLoop(_, _, _)
CompareLoop(items, i, keys) ==
    IF i > Len(items)
    THEN Return(keys)
    ELSE IF CompareFeatureKeys(items[i]).out = "raise"
    THEN CompareFeatureKeys(items[i])
    ELSE CompareLoop(items, i + 1, keys \cup CompareFeatureKeys(items[i]).value)

\* Lines 99-121, both documents being FeatureCollections. The three key lists
\* are list(set(...)): each is represented by its set.
CompareCollections(geojson1, geojson2, different_types) ==
    LET features1 == Get(geojson1, "features", EmptyList)
        features2 == Get(geojson2, "features", EmptyList)
    IN
    IF ~HasLen(features1) \/ ~HasLen(features2)
    THEN Raise("TypeError")
    ELSE LET keys1 == CompareLoop(Iter(features1), 1, {})
             keys2 == CompareLoop(Iter(features2), 1, {})
         IN
         IF keys1.out = "raise"
         THEN keys1
         ELSE IF keys2.out = "raise"
         THEN keys2
         ELSE Return(("different_types" :> different_types)
                     @@ ("feature_count_1" :> PyLen(features1))
                     @@ ("feature_count_2" :> PyLen(features2))
                     @@ ("feature_count_diff" :> PyLen(features1) - PyLen(features2))
                     @@ ("unique_keys_1" :> keys1.value \ keys2.value)
                     @@ ("unique_keys_2" :> keys2.value \ keys1.value)
                     @@ ("common_keys" :> keys1.value \cap keys2.value))

\* compare_geojson(geojson1, geojson2), lines 91-123. x.get("type") is None
\* for a missing member, which is also what a JSON null parses to.
compare_geojson(geojson1, geojson2) ==
    IF ~IsDict(geojson1) \/ ~IsDict(geojson2)
    THEN Raise("AttributeError")
    ELSE LET type1 == Get(geojson1, "type", JNull)
             type2 == Get(geojson2, "type", JNull)
         IN
         IF type1 = JStr("FeatureCollection") /\ type2 = JStr("FeatureCollection")
         THEN CompareCollections(geojson1, geojson2, type1 # type2)
         ELSE Return("different_types" :> (type1 # type2))

(***************************************************************************)
(* The two built-in sample documents                                       *)
(***************************************************************************)
\* A non-integer number m * 10^e (10.5 is JFloat(105, -1)).
JFloat(m, e) == [k |-> "num", n |-> m, e |-> e]

Point2(x, y) == JArr(<<JNum(x), JNum(y)>>)

sample_geojson1 ==
    JObj([type |-> JStr("FeatureCollection"),
          features |-> JArr(<<
              JObj([type |-> JStr("Feature"),
                    properties |-> JObj([name |-> JStr("Point 1"), value |-> JNum(42)]),
                    geometry |-> JObj([type |-> JStr("Point"),
                                       coordinates |-> Point2(0, 0)])]),
              JObj([type |-> JStr("Feature"),
                    properties |-> JObj([name |-> JStr("Line 1"), length |-> JFloat(105, -1)]),
                    geometry |-> JObj([type |-> JStr("LineString"),
                                       coordinates |-> JArr(<<Point2(0, 0), Point2(1, 1)>>)])])
          >>)])

sample_geojson2 ==
    JObj([type |-> JStr("FeatureCollection"),
          features |-> JArr(<<
              JObj([type |-> JStr("Feature"),
                    properties |-> JObj([name |-> JStr("Point A"), elevation |-> JNum(100)]),
                    geometry |-> JObj([type |-> JStr("Point"),
                                       coordinates |-> Point2(2, 2)])]),
              JObj([type |-> JStr("Feature"),
                    properties |-> JObj([name |-> JStr("Polygon A"), area |-> JFloat(250, -1)]),
                    geometry |-> JObj([type |-> JStr("Polygon"),
                                       coordinates |-> JArr(<<JArr(<<Point2(0, 0), Point2(5, 0),
                                           Point2(5, 5), Point2(0, 5), Point2(0, 0)>>)>>)])])
          >>)])

(***************************************************************************)
(* Inputs: the documents json.loads can hand to the three functions        *)
(***************************************************************************)
\* The longest `features` array of a generated document.
MaxFeatures == 2

\* A member left out of an object.
Absent == [k |-> "absent"]
Member(key, v) == IF v = Absent THEN <<>> ELSE key :> v

SeqsUpTo(S, n) == UNION {[1..m -> S] : m \in 0..n}

\* Values that are no object: null, a boolean, numbers, strings, arrays.
\* Python's == equates True with 1 and False with 0; no member the functions
\* compare or use as a dict key holds a boolean, so equality of the tagged
\* records is Python's equality on these inputs.
NonObjects == {JNull, JBool(TRUE), JNum(7), JStr("ab"), EmptyList}

\* What a `type` member may hold.
TypeValues ==
    {Absent, JNull, JNum(7), EmptyList, JStr("Bogus"), JStr("featurecollection")}
    \cup {JStr(t) : t \in GeoJSONTypes}

\* What `features`, `geometry`, `properties`, `coordinates` may hold, by kind.
KindValues == {Absent, JNull, JNum(7), JStr("ab"), EmptyList, EmptyDict}

\* `features` arrays of up to MaxFeatures items, objects or not.
FeatureArrays == {JArr(q) : q \in SeqsUpTo({JNull, EmptyDict}, MaxFeatures)}

ValidateDocs ==
    NonObjects
    \cup {JObj(Member("type", t) @@ Member("features", f) @@ Member("geometry", g)
               @@ Member("properties", p) @@ Member("coordinates", c)) :
            t \in TypeValues, f \in KindValues \cup FeatureArrays,
            g \in KindValues, p \in KindValues, c \in KindValues}

PropKeys == {"name", "value"}
PropertyDicts == {JObj([key \in K |-> JNum(7)]) : K \in SUBSET PropKeys}
PropertiesValues == PropertyDicts \cup {Absent, JNull, JStr("ab")}

GeometryValues ==
    {Absent, JNull, JStr("ab"), EmptyDict,
     JObj([type |-> JStr("Point")]), JObj([type |-> JStr("LineString")]),
     JObj([type |-> JNum(7)]), JObj([type |-> EmptyList])}

FeatureObjects(G, P) ==
    {JObj(Member("type", JStr("Feature")) @@ Member("geometry", g)
          @@ Member("properties", p)) : g \in G, p \in P}

\* Items of a `features` array that are no object.
NonObjectItems ==
    {JNull, JNum(7), JStr("properties"), EmptyList, JArr(<<JStr("properties")>>)}

\* A `features` member that is no array.
NonArrayFeatures ==
    {Absent, JNull, JNum(7), JStr(""), JStr("ab"),
     JObj([name |-> JNum(7)]), JObj([properties |-> JNum(7)])}

Collections(items) ==
    {JObj(Member("type", JStr("FeatureCollection")) @@ Member("features", f)) :
        f \in NonArrayFeatures \cup {JArr(q) : q \in SeqsUpTo(items, MaxFeatures)}}

\* Documents that are neither a FeatureCollection nor a Feature.
OtherDocs ==
    NonObjects
    \cup {JObj(Member("type", t)) :
            t \in {Absent, JNull, JNum(7), JStr("Bogus"), JStr("Point"),
                   JStr("GeometryCollection")}}
    \cup {JObj([type |-> JStr("Point"), coordinates |-> Point2(0, 0),
                properties |-> JObj([name |-> JNum(7)])])}

AnalyzeDocs ==
    OtherDocs
    \cup FeatureObjects(GeometryValues, PropertiesValues)
    \cup Collections(FeatureObjects(GeometryValues, PropertiesValues) \cup NonObjectItems)
    \cup {sample_geojson1, sample_geojson2}

CompareGeometry == {JNull, JObj([type |-> JStr("Point")])}
CompareProperties == PropertyDicts \cup {Absent, JStr("ab")}

CompareDocs ==
    OtherDocs
    \cup {JObj([type |-> JStr("Feature"), geometry |-> JNull, properties |-> JNull])}
    \cup Collections(FeatureObjects(CompareGeometry, CompareProperties)
                     \cup {JNull, JStr("properties")})
    \cup {sample_geojson1, sample_geojson2}

(***************************************************************************)
(* The calls. Each action is one call of one function on the loaded        *)
(* documents, in the order the page makes them (lines 217, 224, 252, 259,  *)
(* 288); its outcome, a returned value or a raised exception, is recorded. *)
(***************************************************************************)
Validate1 ==
    /\ pc = "validate1"
    /\ validation1' = validate_geojson(doc1)
    /\ pc' = "analyze1"
    /\ UNCHANGED <<doc1, doc2, validation2, analysis1, analysis2, comparison>>

Analyze1 ==
    /\ pc = "analyze1"
    /\ analysis1' = analyze_geojson(doc1)
    /\ pc' = "validate2"
    /\ UNCHANGED <<doc1, doc2, validation1, validation2, analysis2, comparison>>

Validate2 ==
    /\ pc = "validate2"
    /\ validation2' = validate_geojson(doc2)
    /\ pc' = "analyze2"
    /\ UNCHANGED <<doc1, doc2, validation1, analysis1, analysis2, comparison>>

Analyze2 ==
    /\ pc = "analyze2"
    /\ analysis2' = analyze_geojson(doc2)
    /\ pc' = "compare"
    /\ UNCHANGED <<doc1, doc2, validation1, validation2, analysis1, comparison>>

Compare ==
    /\ pc = "compare"
    /\ comparison' = compare_geojson(doc1, doc2)
    /\ pc' = "done"
    /\ UNCHANGED <<doc1, doc2, validation1, validation2, analysis1, analysis2>>

NoResults ==
    /\ validation1 = NotCalled
    /\ validation2 = NotCalled
    /\ analysis1 = NotCalled
    /\ analysis2 = NotCalled
    /\ comparison = NotCalled

\* Two documents through the whole pipeline.
Init ==
    /\ doc1 \in CompareDocs
    /\ doc2 \in CompareDocs
    /\ pc = "validate1"
    /\ NoResults

Next == Validate1 \/ Analyze1 \/ Validate2 \/ Analyze2 \/ Compare

Spec == Init /\ [][Next]_vars

\* validate_geojson alone, on one document.
InitValidate ==
    /\ doc1 \in ValidateDocs
    /\ doc2 = JNull
    /\ pc = "validate1"
    /\ NoResults

NextValidate == Validate1

SpecValidate == InitValidate /\ [][NextValidate]_vars

\* analyze_geojson alone, on one document.
InitAnalyze ==
    /\ doc1 \in AnalyzeDocs
    /\ doc2 = JNull
    /\ pc = "analyze1"
    /\ NoResults

NextAnalyze == Analyze1

SpecAnalyze == InitAnalyze /\ [][NextAnalyze]_vars

(***************************************************************************)
(* Properties of validate_geojson (under SpecValidate)                     *)
(***************************************************************************)
Validated == validation1 # NotCalled

\* The type member of an object document, None when it is missing.
TypeOf(d) == IF "type" \in DOMAIN d.o THEN d.o["type"] ELSE JNull

\* C1: validate_geojson never raises to its caller: for every input value it
\* returns a pair (valid, message) of a boolean and a string, and every
\* failure (a schema violation or any other exception of the body, a missing
\* features or geometry member) is reported as valid = FALSE.
C1_NeverRaises ==
    Validated =>
        /\ validation1.out = "return"
        /\ validation1.value[1] \in BOOLEAN
        /\ validation1.value[2] \in STRING
        /\ (validate_body(doc1).out = "raise" => validation1.value[1] = FALSE)
        /\ (validation1.value[2] # "Valid GeoJSON" => validation1.value[1] = FALSE)

\* C1 witness: a document that is no object (the schema check fails inside
\* the try block) has been validated and reported invalid.
C1_Witness ==
    /\ Validated
    /\ ~IsDict(doc1)
    /\ validate_body(doc1).out = "raise"
    /\ validation1 = Return(<<FALSE, "Invalid GeoJSON: <e.message>">>)

C2_NineTypes ==
    {JStr("FeatureCollection"), JStr("Feature"), JStr("Point"), JStr("LineString"),
     JStr("Polygon"), JStr("MultiPoint"), JStr("MultiLineString"),
     JStr("MultiPolygon"), JStr("GeometryCollection")}

C2_DeclaredKind == [features |-> "arr", geometry |-> "obj", properties |-> "obj",
                    coordinates |-> "arr"]

\* The four members, when present, are of their declared kinds.
C2_DeclaredKinds(d) ==
    IsDict(d) => \A m \in DOMAIN C2_DeclaredKind \cap DOMAIN d.o :
                    d.o[m].k = C2_DeclaredKind[m]

C2_Expected(d) ==
    /\ IsDict(d)
    /\ "type" \in DOMAIN d.o
    /\ d.o["type"] \in C2_NineTypes
    /\ (d.o["type"] = JStr("FeatureCollection") => "features" \in DOMAIN d.o)
    /\ (d.o["type"] = JStr("Feature") => "geometry" \in DOMAIN d.o)

\* C2: for every input whose features, geometry, properties and coordinates
\* members, when present, are of their declared kinds, validate_geojson
\* returns valid = TRUE exactly when the input is an object whose type is one
\* of the nine strings, with features present for a FeatureCollection and
\* geometry present for a Feature.
C2_ValidExactlyWhen ==
    Validated /\ C2_DeclaredKinds(doc1) =>
        /\ validation1.out = "return"
        /\ validation1.value[1] = C2_Expected(doc1)

\* C2 witness: a Feature with a geometry object has been reported valid.
C2_Witness ==
    /\ Validated
    /\ IsDict(doc1)
    /\ TypeOf(doc1) = JStr("Feature")
    /\ "geometry" \in DOMAIN doc1.o
    /\ C2_DeclaredKinds(doc1)
    /\ validation1 = Return(<<TRUE, "Valid GeoJSON">>)

\* C3 as stated: for every object whose type is one of the nine strings the
\* result depends on the presence of features and geometry only, whatever
\* kind of value the four members hold.
C3_PresenceOnly ==
    Validated /\ IsDict(doc1) /\ TypeOf(doc1) \in C2_NineTypes =>
        /\ validation1.out = "return"
        /\ validation1.value[1] = C2_Expected(doc1)

\* C3 (amended): for every object whose type is one of the nine strings, a
\* features, geometry, properties or coordinates member that is present with
\* a value not of its declared kind (array, object, object, array) makes the
\* result valid = FALSE.
C3_KindChecked ==
    Validated /\ IsDict(doc1) /\ TypeOf(doc1) \in C2_NineTypes
              /\ ~C2_DeclaredKinds(doc1) =>
        /\ validation1.out = "return"
        /\ validation1.value[1] = FALSE

\* C3 witness: a FeatureCollection whose features member is present but is a
\* string has been reported invalid.
C3_Witness ==
    /\ Validated
    /\ IsDict(doc1)
    /\ TypeOf(doc1) = JStr("FeatureCollection")
    /\ "features" \in DOMAIN doc1.o
    /\ doc1.o["features"] = JStr("ab")
    /\ DOMAIN doc1.o = {"type", "features"}
    /\ validation1.out = "return"
    /\ validation1.value[1] = FALSE

(***************************************************************************)
(* Properties of analyze_geojson (under SpecAnalyze) and compare_geojson   *)
(* (under Spec)                                                            *)
(***************************************************************************)
Analyzed == analysis1 # NotCalled
Compared == comparison # NotCalled

IsCollection(d) == IsDict(d) /\ TypeOf(d) = JStr("FeatureCollection")

\* The features of a collection, the empty sequence when the member is absent.
FeaturesOf(d) == IF "features" \in DOMAIN d.o THEN d.o["features"] ELSE EmptyList

\* A FeatureCollection whose features is a sequence of objects.
ObjectFeatures(d) ==
    /\ IsCollection(d)
    /\ IsList(FeaturesOf(d))
    /\ \A i \in DOMAIN FeaturesOf(d).a : IsDict(FeaturesOf(d).a[i])

\* The keys of a feature's properties object, none when it has no such object.
PropertyKeysOf(f) ==
    IF IsDict(f) /\ "properties" \in DOMAIN f.o /\ IsDict(f.o["properties"])
    THEN DOMAIN f.o["properties"].o
    ELSE {}

\* All property keys occurring in the features of a collection.
AllPropertyKeys(d) ==
    IF IsList(FeaturesOf(d))
    THEN UNION {PropertyKeysOf(FeaturesOf(d).a[i]) : i \in DOMAIN FeaturesOf(d).a}
    ELSE {}

\* C4: analyze_geojson and compare_geojson have no failure path: for every
\* JSON value given as a document each returns a report instead of raising.
C4_NoFailurePath ==
    /\ (analysis1 # NotCalled => analysis1.out = "return" /\ "type" \in DOMAIN analysis1.value)
    /\ (analysis2 # NotCalled => analysis2.out = "return" /\ "type" \in DOMAIN analysis2.value)
    /\ (comparison # NotCalled =>
            comparison.out = "return" /\ "different_types" \in DOMAIN comparison.value)

\* The geometry type a feature is counted under: geometry.type, "Unknown" when
\* it is missing at any level.
C5_GeoTypeOf(f) ==
    IF "geometry" \in DOMAIN f.o /\ IsDict(f.o["geometry"])
       /\ "type" \in DOMAIN f.o["geometry"].o
    THEN f.o["geometry"].o["type"]
    ELSE JStr("Unknown")

C5_Tally(items) ==
    [g \in {C5_GeoTypeOf(items[i]) : i \in DOMAIN items} |->
        Cardinality({i \in DOMAIN items : C5_GeoTypeOf(items[i]) = g})]

RECURSIVE C5_Sum(_, _)
C5_Sum(f, S) ==
    IF S = {} THEN 0
    ELSE LET g == CHOOSE x \in S : TRUE IN f[g] + C5_Sum(f, S \ {g})

\* C5: for every FeatureCollection whose features is a sequence of objects (or
\* is absent), analyze_geojson returns feature_count equal to the number of
\* features and geometry_types mapping each geometry type to the number of
\* features of that type, a feature with no geometry or no geometry type being
\* counted under "Unknown"; the counts sum to feature_count and none is 0.
C5_TallyPerType ==
    Analyzed /\ ObjectFeatures(doc1) =>
        /\ analysis1.out = "return"
        /\ analysis1.value["feature_count"] = Len(FeaturesOf(doc1).a)
        /\ analysis1.value["geometry_types"] = C5_Tally(FeaturesOf(doc1).a)
        /\ C5_Sum(analysis1.value["geometry_types"],
                  DOMAIN analysis1.value["geometry_types"])
              = analysis1.value["feature_count"]
        /\ \A g \in DOMAIN analysis1.value["geometry_types"] :
              analysis1.value["geometry_types"][g] > 0

C6_Bare ==
    {JStr("Point"), JStr("LineString"), JStr("Polygon"), JStr("MultiPoint"),
     JStr("MultiLineString"), JStr("MultiPolygon"), JStr("GeometryCollection")}

\* A properties object with at least one key exists in the Feature, or in some
\* feature of the collection.
C6_HasKeyedProperties(d) ==
    \/ TypeOf(d) = JStr("Feature") /\ PropertyKeysOf(d) # {}
    \/ TypeOf(d) = JStr("FeatureCollection") /\ AllPropertyKeys(d) # {}

\* C6: the fields of analyze_geojson's report for an object document are
\* determined by its type: type is always present (the value found, "Unknown"
\* when missing); feature_count and geometry_types only for a
\* FeatureCollection; geometry_type only for a Feature or a bare geometry, for
\* which it equals type; property_keys whenever a properties object with a key
\* exists in the Feature or in a feature of the collection, never for a bare
\* geometry; for any other or missing type the report holds type alone.
C6_FieldsByType ==
    Analyzed /\ IsDict(doc1) =>
        /\ analysis1.out = "return"
        /\ "type" \in DOMAIN analysis1.value
        /\ analysis1.value["type"] =
              (IF "type" \in DOMAIN doc1.o THEN doc1.o["type"] ELSE JStr("Unknown"))
        /\ ({"feature_count", "geometry_types"} \cap DOMAIN analysis1.value # {}
              => TypeOf(doc1) = JStr("FeatureCollection"))
        /\ ("geometry_type" \in DOMAIN analysis1.value
              => TypeOf(doc1) \in C6_Bare \cup {JStr("Feature")})
        /\ (TypeOf(doc1) \in C6_Bare
              => /\ "geometry_type" \in DOMAIN analysis1.value
                 /\ analysis1.value["geometry_type"] = TypeOf(doc1)
                 /\ "property_keys" \notin DOMAIN analysis1.value)
        /\ (C6_HasKeyedProperties(doc1) => "property_keys" \in DOMAIN analysis1.value)
        /\ (TypeOf(doc1) \notin C6_Bare \cup {JStr("Feature"), JStr("FeatureCollection")}
              => DOMAIN analysis1.value = {"type"})

Reverse(q) == [i \in 1..Len(q) |-> q[Len(q) + 1 - i]]

\* The collection d with q as its features.
WithFeatures(d, q) == JObj([d.o EXCEPT !["features"] = JArr(q)])

\* analyze_geojson(d) returned a report whose property_keys is the set K.
C7_ReportsKeys(d, K) ==
    /\ analyze_geojson(d).out = "return"
    /\ analyze_geojson(d).value["property_keys"] = K

\* C7: for every FeatureCollection (features a sequence of feature objects),
\* the property_keys analyze_geojson reports is, as a set, the union of the key
\* sets of the non-empty properties objects of its features, and it is
\* unchanged when the features are permuted or a feature is repeated.
C7_KeyUnion ==
    Analyzed /\ ObjectFeatures(doc1) /\ "features" \in DOMAIN doc1.o =>
        /\ analysis1.out = "return"
        /\ analysis1.value["property_keys"] = AllPropertyKeys(doc1)
        /\ C7_ReportsKeys(WithFeatures(doc1, Reverse(FeaturesOf(doc1).a)),
                          analysis1.value["property_keys"])
        /\ \A i \in DOMAIN FeaturesOf(doc1).a :
              C7_ReportsKeys(WithFeatures(doc1, Append(FeaturesOf(doc1).a,
                                                       FeaturesOf(doc1).a[i])),
                             analysis1.value["property_keys"])

\* C8: for every valid FeatureCollection X (one validate_geojson reports
\* valid), compare_geojson(X, X) returns different_types = FALSE,
\* feature_count_diff = 0, equal feature counts, empty unique_keys_1 and
\* unique_keys_2, and common_keys equal to all property keys of X's features.
C8_SelfCompare ==
    Compared /\ doc1 = doc2 /\ IsCollection(doc1)
             /\ validation1 = Return(<<TRUE, "Valid GeoJSON">>) =>
        /\ comparison.out = "return"
        /\ comparison.value["different_types"] = FALSE
        /\ comparison.value["feature_count_diff"] = 0
        /\ comparison.value["feature_count_1"] = comparison.value["feature_count_2"]
        /\ comparison.value["unique_keys_1"] = {}
        /\ comparison.value["unique_keys_2"] = {}
        /\ comparison.value["common_keys"] = AllPropertyKeys(doc1)

C9_CountAndKeyFields ==
    {"feature_count_1", "feature_count_2", "feature_count_diff",
     "unique_keys_1", "unique_keys_2", "common_keys"}

\* C9: for every pair of object documents, compare_geojson's report always
\* contains different_types, TRUE exactly when the two type members differ
\* (both missing: FALSE); the six count and key fields are all present when
\* both types are "FeatureCollection" and all absent otherwise.
C9_FieldPresence ==
    Compared /\ IsDict(doc1) /\ IsDict(doc2) =>
        /\ comparison.out = "return"
        /\ "different_types" \in DOMAIN comparison.value
        /\ comparison.value["different_types"] = (TypeOf(doc1) # TypeOf(doc2))
        /\ IF IsCollection(doc1) /\ IsCollection(doc2)
           THEN C9_CountAndKeyFields \subseteq DOMAIN comparison.value
           ELSE C9_CountAndKeyFields \cap DOMAIN comparison.value = {}

\* C10: for every pair of FeatureCollections whose features are objects,
\* compare_geojson reports the feature counts analyze_geojson reports for each,
\* their signed difference, and, with Ka and Kb the property_keys
\* analyze_geojson reports, unique_keys_1 = Ka \ Kb, unique_keys_2 = Kb \ Ka
\* and common_keys = Ka \cap Kb; for the two sample documents: counts 2 and 2,
\* difference 0, {value, length}, {elevation, area} and {name}.
C10_AgreesWithAnalyze ==
    Compared /\ ObjectFeatures(doc1) /\ ObjectFeatures(doc2) =>
        /\ analysis1.out = "return"
        /\ analysis2.out = "return"
        /\ comparison.out = "return"
        /\ comparison.value["feature_count_1"] = analysis1.value["feature_count"]
        /\ comparison.value["feature_count_2"] = analysis2.value["feature_count"]
        /\ comparison.value["feature_count_diff"] =
              analysis1.value["feature_count"] - analysis2.value["feature_count"]
        /\ comparison.value["unique_keys_1"] =
              analysis1.value["property_keys"] \ analysis2.value["property_keys"]
        /\ comparison.value["unique_keys_2"] =
              analysis2.value["property_keys"] \ analysis1.value["property_keys"]
        /\ comparison.value["common_keys"] =
              analysis1.value["property_keys"] \cap analysis2.value["property_keys"]
        /\ (doc1 = sample_geojson1 /\ doc2 = sample_geojson2 =>
              /\ comparison.value["feature_count_1"] = 2
              /\ comparison.value["feature_count_2"] = 2
              /\ comparison.value["feature_count_diff"] = 0
              /\ comparison.value["unique_keys_1"] = {"value", "length"}
              /\ comparison.value["unique_keys_2"] = {"elevation", "area"}
              /\ comparison.value["common_keys"] = {"name"})

====
